---- MODULE Spec2Model ----
(***************************************************************************)
(* Model of the greeting-card views and of the repository's script.        *)
(*   - the opening view  Home        (home.jsx,        part_001:1-216)     *)
(*   - the celebration   SecondPage  (celebration.jsx, part_001:218-538)   *)
(*   - the CSS loading checker       (node script,     part_000:1-268)     *)
(* Each handler, timer callback, event listener and promise reaction of    *)
(* the components is one action.  A state update made by a handler, the    *)
(* re-render it causes and the effects of that render are part of the      *)
(* same action.                                                            *)
(***************************************************************************)
EXTENDS Integers, Sequences, FiniteSets

VARIABLES
    \* ---- opening view (Home) ----
    homeMounted,     \* the Home component is mounted (lid, confetti refs set)
    isOpening,       \* useState(false)
    animatingRef,    \* useRef(false)
    buttonDisabled,  \* disabled={animatingRef.current} as of the last render
    bodyOpening,     \* document.body carries the class "opening"
    confettiBurst,   \* the confetti container carries "confetti-burst"
    acts,            \* one record per accepted activation: its timers and listener
    giftClicks,      \* number of calls of the onGiftClick prop
    navCount,        \* number of calls of navigate('/celebration')
    homeEvent        \* the last event the opening view handled

homeVars == <<homeMounted, isOpening, animatingRef, buttonDisabled, bodyOpening,
              confettiBurst, acts, giftClicks, navCount, homeEvent>>

VARIABLES
    \* ---- celebration view (SecondPage) ----
    celPhase,        \* "initial" (not yet mounted), "mounted", "unmounted"
    msgLen,          \* personalMessage.length (prop)
    sequenceState,   \* useState("init")
    typedLen,        \* typedText.length
    typingIndex,     \* typingIndex.current
    typingTimer,     \* typingTimer.current is an interval (TRUE) or null (FALSE)
    timers,          \* status of the timeouts t1..t4 and the autoplay timeout t
    isMuted,         \* useState(false)
    showPlayPrompt,  \* useState(false)
    audioPlaying,    \* useState(false)
    audioMuted,      \* audio.muted
    audioPaused,     \* audio.paused
    clickArmed,      \* onUserGesture is registered for "click" on the document
    touchArmed,      \* onUserGesture is registered for "touchstart"
    listenerIsMuted, \* isMuted as captured by the registered onUserGesture
    celebBurst,      \* the confetti layer carries "celebration-burst"
    pending,         \* play() promises not yet settled: (kind, outcome) -> count
    autoAttempts,    \* number of runs of tryMutedAutoplay
    earlyUnmutedPlay,\* play() was called unmuted before tryMutedAutoplay ran
    lateSetState,    \* a state setter was called after the unmount
    lateAudioCall,   \* the audio element was written or played after the unmount
    uncaught,        \* a play() promise rejected with no handler
    audioEvent       \* the last event that reached the audio logic

celVars == <<celPhase, msgLen, sequenceState, typedLen, typingIndex, typingTimer,
             timers, isMuted, showPlayPrompt, audioPlaying, audioMuted, audioPaused,
             clickArmed, touchArmed, listenerIsMuted, celebBurst, pending,
             autoAttempts, earlyUnmutedPlay, lateSetState, lateAudioCall, uncaught,
             audioEvent>>

VARIABLES
    \* ---- CSS loading checker (node script) ----
    pc,              \* the block of the script that runs next
    files,           \* the working directory: the state of each main file
    issues,          \* const issues = []
    recommendations, \* const recommendations = []
    allCSSImports,   \* allCSSImports.length
    hasServiceWorker,\* let hasServiceWorker = false
    exitStatus       \* the exit status of the node process

diagVars == <<pc, files, issues, recommendations, allCSSImports, hasServiceWorker,
              exitStatus>>

vars == <<homeVars, celVars, diagVars>>

\* ------------------------------------------------------------------ bounds
\* accepted activations of the gift per run
MaxActivations == 2

\* ------------------------------------------------------ opening view: Home
Keys == {"Enter", " ", "Tab"}
AnimationNames == {"lidFlipOpen", "other"}

InitHome ==
    /\ homeMounted = TRUE
    /\ isOpening = FALSE
    /\ animatingRef = FALSE
    /\ buttonDisabled = FALSE
    /\ bodyOpening = FALSE
    /\ confettiBurst = FALSE
    /\ acts = <<>>
    /\ giftClicks = 0
    /\ navCount = 0
    /\ homeEvent = "none"

\* OpeningClassHandler: the effect of a render with enabled = isOpening
OpeningClassHandler(enabled) == enabled

\* the timers and the listener one activation arms
NewActivation == [confetti |-> "armed", fallback |-> "armed", listener |-> "armed"]

\* handleGiftClick without its first line
handleGiftClickUnguarded ==
    /\ Len(acts) < MaxActivations
    /\ animatingRef' = TRUE
    /\ isOpening' = TRUE
    /\ buttonDisabled' = IF isOpening THEN buttonDisabled ELSE TRUE
    /\ bodyOpening' = OpeningClassHandler(TRUE)
    /\ acts' = Append(acts, NewActivation)
    /\ UNCHANGED <<homeMounted, confettiBurst, giftClicks, navCount>>

\* handleGiftClick: returns at once while animatingRef.current is set; otherwise
\* sets the flag and isOpening (re-render: the overlay button reads the flag,
\* OpeningClassHandler adds the body class), arms the confetti timer, the
\* fallback timer and the once-only animationend listener on the lid.
handleGiftClick ==
    IF animatingRef
    THEN UNCHANGED <<homeMounted, isOpening, animatingRef, buttonDisabled,
                     bodyOpening, confettiBurst, acts, giftClicks, navCount>>
    ELSE /\ Len(acts) < MaxActivations
         /\ animatingRef' = TRUE
         /\ isOpening' = TRUE
         /\ buttonDisabled' = IF isOpening THEN buttonDisabled ELSE TRUE
         /\ bodyOpening' = OpeningClassHandler(TRUE)
         /\ acts' = Append(acts, NewActivation)
         /\ UNCHANGED <<homeMounted, confettiBurst, giftClicks, navCount>>

\* box-body onClick
BoxClick ==
    /\ homeMounted
    /\ UNCHANGED <<celVars, diagVars>>
    /\ homeEvent' = "click"
    /\ handleGiftClick

\* box-body onKeyDown: Enter and Space activate, other keys do nothing
BoxKeyDown ==
    /\ homeMounted
    /\ UNCHANGED <<celVars, diagVars>>
    /\ \E key \in Keys :
         /\ homeEvent' = key
         /\ IF key = "Enter" \/ key = " "
            THEN handleGiftClick
            ELSE UNCHANGED <<homeMounted, isOpening, animatingRef, buttonDisabled,
                             bodyOpening, confettiBurst, acts, giftClicks, navCount>>

\* overlay button onClick: a disabled button delivers no click
OverlayClick ==
    /\ homeMounted
    /\ UNCHANGED <<celVars, diagVars>>
    /\ ~buttonDisabled
    /\ homeEvent' = "button"
    /\ handleGiftClick

\* timers fire in the order of their deadlines: activation i's confetti timer
\* (+180 ms) before its fallback (+2600 ms), and earlier activations' timers
\* of a kind before later ones
ConfettiDue(i) ==
    /\ acts[i].confetti = "armed"
    /\ \A k \in 1..(i - 1) : acts[k].confetti # "armed"

FallbackDue(i) ==
    /\ acts[i].fallback = "armed"
    /\ acts[i].confetti # "armed"
    /\ \A k \in 1..(i - 1) : acts[k].fallback # "armed"

\* the 180 ms timer: confettiRef.current && classList.add("confetti-burst")
ConfettiTimer ==
    \E i \in 1..Len(acts) :
        /\ ConfettiDue(i)
        /\ acts' = [acts EXCEPT ![i].confetti = "fired"]
        /\ confettiBurst' = IF homeMounted THEN TRUE ELSE confettiBurst
        /\ homeEvent' = "confettiTimer"
        /\ UNCHANGED <<celVars, diagVars,
                       homeMounted, isOpening, animatingRef, buttonDisabled,
                       bodyOpening, giftClicks, navCount>>

\* the 2600 ms fallback timer: clears the flag, calls onGiftClick and navigate
FallbackTimer ==
    \E i \in 1..Len(acts) :
        /\ FallbackDue(i)
        /\ acts' = [acts EXCEPT ![i].fallback = "fired"]
        /\ animatingRef' = FALSE
        /\ giftClicks' = giftClicks + 1
        /\ navCount' = navCount + 1
        /\ homeEvent' = "fallbackTimer"
        /\ UNCHANGED <<celVars, diagVars,
                       homeMounted, isOpening, buttonDisabled, bodyOpening,
                       confettiBurst>>

\* the listeners an animationend event on the lid runs
ArmedListeners == {i \in 1..Len(acts) : acts[i].listener = "armed"}

\* onAnimEnd, for every listener the event runs: each is removed (once: true);
\* for the lid's own animation each clears its fallback timer, clears the flag,
\* calls onGiftClick and navigate
onAnimEnd(animationName) ==
    LET run == ArmedListeners
        hit == IF animationName = "lidFlipOpen" THEN run ELSE {}
    IN  /\ acts' = [i \in 1..Len(acts) |->
                     [acts[i] EXCEPT
                        !.listener = IF i \in run THEN "gone" ELSE @,
                        !.fallback = IF i \in hit /\ @ = "armed" THEN "cleared" ELSE @]]
        /\ animatingRef' = IF hit # {} THEN FALSE ELSE animatingRef
        /\ giftClicks' = giftClicks + Cardinality(hit)
        /\ navCount' = navCount + Cardinality(hit)

\* an animationend event dispatched on the lid while it is in the document
AnimationEnd ==
    /\ homeMounted
    /\ ArmedListeners # {}
    /\ \E animationName \in AnimationNames : onAnimEnd(animationName)
    /\ homeEvent' = "animationend"
    /\ UNCHANGED <<celVars, diagVars, homeMounted, isOpening, buttonDisabled, bodyOpening,
                   confettiBurst>>

\* the route changes and Home unmounts: OpeningClassHandler's cleanup removes
\* the body class; the refs are cleared; the component has no other cleanup
HomeUnmount ==
    /\ homeMounted
    /\ homeMounted' = FALSE
    /\ bodyOpening' = FALSE
    /\ homeEvent' = "unmount"
    /\ UNCHANGED <<celVars, diagVars,
                   isOpening, animatingRef, buttonDisabled, confettiBurst, acts,
                   giftClicks, navCount>>

NextHome ==
    \/ BoxClick
    \/ BoxKeyDown
    \/ OverlayClick
    \/ ConfettiTimer
    \/ FallbackTimer
    \/ AnimationEnd
    \/ HomeUnmount


\* ------------------------------------------- celebration view: SecondPage
\* bounds
\* longest personalMessage, in characters
MaxMsgLen == 33
\* length of the personalMessage of the runs that explore every user input
ShortMsgLen == 2
\* play() promises a user input may leave unsettled at a time
MaxPending == 2

\* timeouts and the typing interval, in ms
T1 == 100
T2 == 520
T3 == 900
T4 == 2000
TAutoplay == 120
TypeInterval == 35

Stages == <<"init", "image", "heading", "typing", "done">>
TimerNames == {"t1", "t2", "t3", "t4", "auto"}
PKinds == {"sync", "auto", "gesture", "tap1", "tap2"}
PTypes == PKinds \X BOOLEAN
ClickTargets == {"image", "page"}

RECURSIVE BagSize(_, _)
BagSize(p, S) ==
    IF S = {} THEN 0
    ELSE LET x == CHOOSE y \in S : TRUE IN p[x] + BagSize(p, S \ {x})

PendingCount == BagSize(pending, PTypes)

Min(a, b) == IF a < b THEN a ELSE b

celMounted == celPhase = "mounted"

InitCeleb ==
    /\ celPhase = "initial"
    /\ msgLen = 0
    /\ sequenceState = "init"
    /\ typedLen = 0
    /\ typingIndex = 0
    /\ typingTimer = FALSE
    /\ timers = [x \in TimerNames |-> "idle"]
    /\ isMuted = FALSE
    /\ showPlayPrompt = FALSE
    /\ audioPlaying = FALSE
    /\ audioMuted = FALSE
    /\ audioPaused = TRUE
    /\ clickArmed = FALSE
    /\ touchArmed = FALSE
    /\ listenerIsMuted = FALSE
    /\ celebBurst = FALSE
    /\ pending = [t \in PTypes |-> 0]
    /\ autoAttempts = 0
    /\ earlyUnmutedPlay = FALSE
    /\ lateSetState = FALSE
    /\ lateAudioCall = FALSE
    /\ uncaught = FALSE
    /\ audioEvent = "none"

\* the audio element and the promises its play() has returned
Audio == [muted |-> audioMuted, paused |-> audioPaused, pending |-> pending,
          early |-> earlyUnmutedPlay]

SetAudio(au) ==
    /\ audioMuted' = au.muted
    /\ audioPaused' = au.paused
    /\ pending' = au.pending
    /\ earlyUnmutedPlay' = au.early

\* audio.play(): the platform lets the call start playback (ok: paused becomes
\* false and the promise will resolve) or refuses it (the promise will reject)
Play(au, kind, ok, beforeAutoplay) ==
    [au EXCEPT !.pending[<<kind, ok>>] = @ + 1,
               !.paused = IF ok THEN FALSE ELSE @,
               !.early = @ \/ (beforeAutoplay /\ ~au.muted)]

\* the outcomes to consider for a play() call that is made only if called
Outcomes(called) == IF called THEN BOOLEAN ELSE {TRUE}

Settled(au, kind, ok) == [au EXCEPT !.pending[<<kind, ok>>] = @ - 1]

\* the effect on [showPlayPrompt, isMuted]: the previous listeners are removed
\* and, when the prompt shows, onUserGesture is registered for click and
\* touchstart; the effect runs only when a dependency changed
GestureEffect(newPrompt, newIsMuted) ==
    IF newPrompt # showPlayPrompt \/ newIsMuted # isMuted
    THEN /\ clickArmed' = newPrompt
         /\ touchArmed' = newPrompt
         /\ listenerIsMuted' = (newPrompt /\ newIsMuted)
    ELSE UNCHANGED <<clickArmed, touchArmed, listenerIsMuted>>

\* setShowPlayPrompt / setAudioPlaying from a callback: a render and its
\* effects while mounted, nothing but the call itself after the unmount
SetPromptPlaying(newPrompt, newPlaying) ==
    IF celMounted
    THEN /\ showPlayPrompt' = newPrompt
         /\ audioPlaying' = newPlaying
         /\ GestureEffect(newPrompt, isMuted)
         /\ UNCHANGED lateSetState
    ELSE /\ lateSetState' = TRUE
         /\ UNCHANGED <<showPlayPrompt, audioPlaying, clickArmed, touchArmed,
                        listenerIsMuted>>

\* MuteSyncEffect that never plays
MuteSyncEffectNoPlay(au, muted, playing, ok, beforeAutoplay) ==
    LET au1 == [au EXCEPT !.muted = muted]
    IN  [audio |-> au1, playing |-> (~au1.paused /\ ~au1.muted)]

\* the effect on [isMuted]: audio.muted = isMuted; an unmuted paused element
\* is played, otherwise audioPlaying is recomputed
MuteSyncEffect(au, muted, playing, ok, beforeAutoplay) ==
    LET au1 == [au EXCEPT !.muted = muted]
    IN  IF ~muted /\ au1.paused
        THEN [audio |-> Play(au1, "sync", ok, beforeAutoplay), playing |-> playing]
        ELSE [audio |-> au1, playing |-> (~au1.paused /\ ~au1.muted)]

\* mount with a personalMessage of one of the lengths lens: the effects run in
\* order; the reveal timeouts and the autoplay timeout are armed, the [isMuted]
\* effect runs for the first render
MountWith(lens) ==
    /\ celPhase = "initial"
    /\ celPhase' = "mounted"
    /\ \E n \in lens : msgLen' = n
    /\ timers' = [x \in TimerNames |-> "armed"]
    /\ \E ok \in BOOLEAN :
         LET r == MuteSyncEffect(Audio, isMuted, audioPlaying, ok, TRUE)
         IN  /\ SetAudio(r.audio)
             /\ audioPlaying' = r.playing
    /\ audioEvent' = "mount"
    /\ UNCHANGED <<homeVars, diagVars,
                   sequenceState, typedLen, typingIndex, typingTimer, isMuted,
                   showPlayPrompt, clickArmed, touchArmed, listenerIsMuted,
                   celebBurst, autoAttempts, lateSetState, lateAudioCall, uncaught>>

\* mount with a short message
Mount == MountWith({ShortMsgLen})

\* mount with a message of up to MaxMsgLen characters
MountLong == MountWith(0..MaxMsgLen)

\* ---- timers
Deadline(x) ==
    CASE x = "t1" -> T1
      [] x = "t2" -> T2
      [] x = "t3" -> T3
      [] x = "t4" -> T4
      [] x = "auto" -> TAutoplay

\* the interval was set when t3 fired; its next tick
TickDeadline == T3 + TypeInterval * (typingIndex + 1)

TimeoutDue(x) ==
    /\ timers[x] = "armed"
    /\ \A y \in TimerNames : timers[y] = "armed" => Deadline(y) >= Deadline(x)
    /\ typingTimer => TickDeadline > Deadline(x)

TickDue ==
    /\ typingTimer
    /\ \A y \in TimerNames : timers[y] = "armed" => Deadline(y) >= TickDeadline

\* triggerConfetti: the burst class is removed and added again
triggerConfetti == IF celMounted THEN TRUE ELSE celebBurst

audioVars == <<isMuted, showPlayPrompt, audioPlaying, audioMuted, audioPaused,
               clickArmed, touchArmed, listenerIsMuted, pending, autoAttempts,
               earlyUnmutedPlay>>
flagVars == <<lateSetState, lateAudioCall, uncaught>>
\* left alone by the reveal timers and by the keys that do not touch the audio
quietVars == <<flagVars, audioEvent>>

\* RevealTimer with the two stages exchanged
RevealTimerSwapped ==
    \E x \in {"t1", "t2"} :
        /\ TimeoutDue(x)
        /\ timers' = [timers EXCEPT ![x] = "fired"]
        /\ sequenceState' = IF x = "t1" THEN "heading" ELSE "image"
        /\ UNCHANGED <<homeVars, diagVars,
                       celPhase, msgLen, typedLen, typingIndex, typingTimer,
                       celebBurst, audioVars, quietVars>>

\* t1 and t2: setSequenceState
RevealTimer ==
    \E x \in {"t1", "t2"} :
        /\ TimeoutDue(x)
        /\ timers' = [timers EXCEPT ![x] = "fired"]
        /\ sequenceState' = IF x = "t1" THEN "image" ELSE "heading"
        /\ UNCHANGED <<homeVars, diagVars,
                       celPhase, msgLen, typedLen, typingIndex, typingTimer,
                       celebBurst, audioVars, quietVars>>

\* t3: setSequenceState("typing"); startTyping()
TypingTimer ==
    /\ TimeoutDue("t3")
    /\ timers' = [timers EXCEPT !["t3"] = "fired"]
    /\ sequenceState' = "typing"
    /\ typingIndex' = 0
    /\ typedLen' = 0
    /\ typingTimer' = TRUE
    /\ UNCHANGED <<homeVars, diagVars,
                   celPhase, msgLen, celebBurst, audioVars, quietVars>>

\* TypingTick that clears the interval one character early
TypingTickStopsEarly ==
    /\ TickDue
    /\ typingIndex' = typingIndex + 1
    /\ typedLen' = Min(typingIndex', msgLen)
    /\ typingTimer' = ~(typingIndex' >= msgLen - 1)
    /\ UNCHANGED <<homeVars, diagVars,
                   celPhase, msgLen, sequenceState, timers, celebBurst,
                   audioVars, quietVars>>

\* one tick of the typing interval
TypingTick ==
    /\ TickDue
    /\ typingIndex' = typingIndex + 1
    /\ typedLen' = Min(typingIndex', msgLen)
    /\ typingTimer' = ~(typingIndex' >= msgLen)
    /\ UNCHANGED <<homeVars, diagVars,
                   celPhase, msgLen, sequenceState, timers, celebBurst, audioVars,
                   quietVars>>

\* t4: triggerConfetti(); setSequenceState("done")
DoneTimer ==
    /\ TimeoutDue("t4")
    /\ timers' = [timers EXCEPT !["t4"] = "fired"]
    /\ celebBurst' = triggerConfetti
    /\ sequenceState' = "done"
    /\ UNCHANGED <<homeVars, diagVars,
                   celPhase, msgLen, typedLen, typingIndex, typingTimer, audioVars,
                   quietVars>>

\* the autoplay timeout: tryMutedAutoplay up to its await
AutoplayTimer ==
    /\ TimeoutDue("auto")
    /\ timers' = [timers EXCEPT !["auto"] = "fired"]
    /\ autoAttempts' = autoAttempts + 1
    /\ \E ok \in BOOLEAN :
         SetAudio(Play([Audio EXCEPT !.muted = TRUE], "auto", ok, FALSE))
    /\ audioEvent' = "auto"
    /\ UNCHANGED <<homeVars, diagVars,
                   celPhase, msgLen, sequenceState, typedLen, typingIndex,
                   typingTimer, celebBurst, isMuted, showPlayPrompt, audioPlaying,
                   clickArmed, touchArmed, listenerIsMuted, flagVars>>

\* ---- play() promises settling
\* isMuted as tryMutedAutoplay reads it: the effect that defines the function
\* depends on [birthdaySongFilename] only, so it closes over the first render
tryMutedAutoplayIsMuted == FALSE

\* every play() promise of the component has a rejection handler
HasCatch(kind) == kind \in {"sync", "auto", "gesture", "tap1", "tap2"}

BeforeAutoplay == timers["auto"] = "armed"

revealVars == <<msgLen, sequenceState, typedLen, typingIndex, typingTimer, timers,
                celebBurst>>

\* SettleSync whose rejection handler does not show the prompt
SettleSyncSilent ==
    \E ok \in BOOLEAN :
        /\ pending[<<"sync", ok>>] > 0
        /\ SetAudio(Settled(Audio, "sync", ok))
        /\ IF ok THEN SetPromptPlaying(showPlayPrompt, TRUE)
                 ELSE SetPromptPlaying(showPlayPrompt, FALSE)
        /\ uncaught' = (uncaught \/ (~ok /\ ~HasCatch("sync")))
        /\ audioEvent' = IF ok THEN "syncResolved" ELSE "syncRejected"
        /\ UNCHANGED <<homeVars, diagVars, celPhase, revealVars, isMuted, autoAttempts,
                       lateAudioCall>>

\* audio.play().then(() => setAudioPlaying(true)).catch(...) of the [isMuted] effect
SettleSync ==
    \E ok \in BOOLEAN :
        /\ pending[<<"sync", ok>>] > 0
        /\ SetAudio(Settled(Audio, "sync", ok))
        /\ IF ok THEN SetPromptPlaying(showPlayPrompt, TRUE)
                 ELSE SetPromptPlaying(TRUE, FALSE)
        /\ uncaught' = (uncaught \/ (~ok /\ ~HasCatch("sync")))
        /\ audioEvent' = IF ok THEN "syncResolved" ELSE "syncRejected"
        /\ UNCHANGED <<homeVars, diagVars,
                       celPhase, revealVars, isMuted, autoAttempts, lateAudioCall>>

\* tryMutedAutoplay after its await
SettleAuto ==
    \E ok \in BOOLEAN :
        /\ pending[<<"auto", ok>>] > 0
        /\ IF ok
           THEN IF ~celMounted
                THEN /\ SetAudio(Settled(Audio, "auto", ok))
                     /\ UNCHANGED <<showPlayPrompt, audioPlaying, clickArmed,
                                    touchArmed, listenerIsMuted, lateSetState>>
                ELSE IF ~tryMutedAutoplayIsMuted
                     THEN /\ SetAudio([Settled(Audio, "auto", ok) EXCEPT !.muted = FALSE])
                          /\ SetPromptPlaying(FALSE, TRUE)
                     ELSE /\ SetAudio(Settled(Audio, "auto", ok))
                          /\ SetPromptPlaying(FALSE, ~audioPaused /\ ~audioMuted)
           ELSE /\ SetAudio(Settled(Audio, "auto", ok))
                /\ SetPromptPlaying(TRUE, FALSE)
        /\ uncaught' = (uncaught \/ (~ok /\ ~HasCatch("auto")))
        /\ audioEvent' = IF ok THEN "autoResolved" ELSE "autoRejected"
        /\ UNCHANGED <<homeVars, diagVars,
                       celPhase, revealVars, isMuted, autoAttempts, lateAudioCall>>

\* SettleGesture whose success handler leaves the prompt alone
SettleGestureKeepsPrompt ==
    \E ok \in BOOLEAN :
        /\ pending[<<"gesture", ok>>] > 0
        /\ SetAudio(Settled(Audio, "gesture", ok))
        /\ IF ok THEN SetPromptPlaying(showPlayPrompt, ~audioMuted)
                 ELSE SetPromptPlaying(TRUE, audioPlaying)
        /\ uncaught' = (uncaught \/ (~ok /\ ~HasCatch("gesture")))
        /\ audioEvent' = IF ok THEN "gestureResolved" ELSE "gestureRejected"
        /\ UNCHANGED <<homeVars, diagVars, celPhase, revealVars, isMuted, autoAttempts,
                       lateAudioCall>>

\* audio.play().then(...).catch(...) of onUserGesture
SettleGesture ==
    \E ok \in BOOLEAN :
        /\ pending[<<"gesture", ok>>] > 0
        /\ SetAudio(Settled(Audio, "gesture", ok))
        /\ IF ok THEN SetPromptPlaying(FALSE, ~audioMuted)
                 ELSE SetPromptPlaying(TRUE, audioPlaying)
        /\ uncaught' = (uncaught \/ (~ok /\ ~HasCatch("gesture")))
        /\ audioEvent' = IF ok THEN "gestureResolved" ELSE "gestureRejected"
        /\ UNCHANGED <<homeVars, diagVars,
                       celPhase, revealVars, isMuted, autoAttempts, lateAudioCall>>

\* p.catch(...) of onImageTap: on rejection unmute and play once more
SettleTap ==
    \E ok \in BOOLEAN :
        /\ pending[<<"tap1", ok>>] > 0
        /\ IF ok
           THEN /\ SetAudio(Settled(Audio, "tap1", ok))
                /\ UNCHANGED lateAudioCall
           ELSE /\ \E ok2 \in BOOLEAN :
                     SetAudio(Play([Settled(Audio, "tap1", ok) EXCEPT !.muted = FALSE],
                                   "tap2", ok2, BeforeAutoplay))
                /\ lateAudioCall' = (lateAudioCall \/ ~celMounted)
        /\ uncaught' = (uncaught \/ (~ok /\ ~HasCatch("tap1")))
        /\ audioEvent' = IF ok THEN "tapResolved" ELSE "tapRejected"
        /\ UNCHANGED <<homeVars, diagVars,
                       celPhase, revealVars, isMuted, showPlayPrompt, audioPlaying,
                       clickArmed, touchArmed, listenerIsMuted, autoAttempts,
                       lateSetState>>

\* audio.play().catch(() => {}) of onImageTap's retry
SettleTapRetry ==
    \E ok \in BOOLEAN :
        /\ pending[<<"tap2", ok>>] > 0
        /\ SetAudio(Settled(Audio, "tap2", ok))
        /\ uncaught' = (uncaught \/ (~ok /\ ~HasCatch("tap2")))
        /\ audioEvent' = IF ok THEN "retryResolved" ELSE "retryRejected"
        /\ UNCHANGED <<homeVars, diagVars,
                       celPhase, revealVars, isMuted, showPlayPrompt, audioPlaying,
                       clickArmed, touchArmed, listenerIsMuted, autoAttempts,
                       lateSetState, lateAudioCall>>

\* ---- user input
\* onKey, e.code === "KeyM": setIsMuted(s => !s); the render runs the [isMuted]
\* effect and the [showPlayPrompt, isMuted] effect
KeyM ==
    /\ celMounted
    /\ \E ok \in Outcomes(isMuted /\ audioPaused) :
         LET r == MuteSyncEffect(Audio, ~isMuted, audioPlaying, ok, BeforeAutoplay)
         IN  /\ BagSize(r.audio.pending, PTypes) <= MaxPending
             /\ SetAudio(r.audio)
             /\ audioPlaying' = r.playing
    /\ isMuted' = ~isMuted
    /\ GestureEffect(showPlayPrompt, ~isMuted)
    /\ audioEvent' = "KeyM"
    /\ UNCHANGED <<homeVars, diagVars,
                   celPhase, revealVars, showPlayPrompt, autoAttempts, flagVars>>

\* onKey, e.code === "KeyC": triggerConfetti()
KeyC ==
    /\ celMounted
    /\ celebBurst' = triggerConfetti
    /\ UNCHANGED <<homeVars, diagVars,
                   celPhase, msgLen, sequenceState, typedLen, typingIndex,
                   typingTimer, timers, audioVars, quietVars>>

\* onKey, any other key
KeyOther ==
    /\ celMounted
    /\ UNCHANGED <<homeVars, diagVars, celPhase, revealVars, audioVars, quietVars>>

\* onImageTap: triggerConfetti(); audio.muted = isMuted; audio.play() with a
\* rejection handler
onImageTap(au, ok) == Play([au EXCEPT !.muted = isMuted], "tap1", ok, BeforeAutoplay)

\* onUserGesture: audio.muted = isMuted; audio.play() with both handlers
onUserGesture(au, ok) ==
    Play([au EXCEPT !.muted = listenerIsMuted], "gesture", ok, BeforeAutoplay)

\* a click: on the photo it runs onImageTap; it then reaches the document,
\* where it runs onUserGesture if registered (once: true)
DocClick ==
    /\ celMounted
    /\ \E target \in ClickTargets :
       \E ok1 \in Outcomes(target = "image"), ok2 \in Outcomes(clickArmed) :
         LET au1 == IF target = "image" THEN onImageTap(Audio, ok1) ELSE Audio
             au2 == IF clickArmed THEN onUserGesture(au1, ok2) ELSE au1
         IN  /\ BagSize(au2.pending, PTypes) <= MaxPending
             /\ SetAudio(au2)
             /\ celebBurst' = IF target = "image" THEN triggerConfetti ELSE celebBurst
             /\ audioEvent' = IF target = "image" THEN "imageClick"
                              ELSE IF clickArmed THEN "click" ELSE audioEvent
    /\ clickArmed' = FALSE
    /\ UNCHANGED <<homeVars, diagVars,
                   celPhase, msgLen, sequenceState, typedLen, typingIndex,
                   typingTimer, timers, isMuted, showPlayPrompt, audioPlaying,
                   touchArmed, listenerIsMuted, autoAttempts, flagVars>>

\* a touchstart anywhere on the page
DocTouch ==
    /\ celMounted
    /\ \E ok \in Outcomes(touchArmed) :
         LET au == IF touchArmed THEN onUserGesture(Audio, ok) ELSE Audio
         IN  /\ BagSize(au.pending, PTypes) <= MaxPending
             /\ SetAudio(au)
    /\ touchArmed' = FALSE
    /\ audioEvent' = IF touchArmed THEN "touchstart" ELSE audioEvent
    /\ UNCHANGED <<homeVars, diagVars,
                   celPhase, revealVars, isMuted, showPlayPrompt, audioPlaying,
                   clickArmed, listenerIsMuted, autoAttempts, flagVars>>

\* <audio autoPlay>: the platform may start the mounted element by itself
AutoPlayAttribute ==
    /\ celMounted
    /\ audioPaused
    /\ audioPaused' = FALSE
    /\ UNCHANGED <<homeVars, diagVars, celPhase, revealVars, isMuted, showPlayPrompt,
                   audioPlaying, audioMuted, clickArmed, touchArmed, listenerIsMuted,
                   pending, autoAttempts, earlyUnmutedPlay, quietVars>>

\* unmount: every effect's cleanup runs: clearTimeout on t1..t4 and on the
\* autoplay timeout, stopTyping(), cancelled = true, the listeners are removed.
\* The instance's props, state and refs are discarded with it; the audio
\* element and the promises of its play() calls live on in the closures.
Unmount ==
    /\ celMounted
    /\ celPhase' = "unmounted"
    /\ timers' = [x \in TimerNames |-> "cleared"]
    /\ typingTimer' = FALSE
    /\ clickArmed' = FALSE
    /\ touchArmed' = FALSE
    /\ listenerIsMuted' = FALSE
    /\ msgLen' = 0
    /\ sequenceState' = "init"
    /\ typedLen' = 0
    /\ typingIndex' = 0
    /\ celebBurst' = FALSE
    /\ isMuted' = FALSE
    /\ showPlayPrompt' = FALSE
    /\ audioPlaying' = FALSE
    /\ audioEvent' = "unmount"
    /\ UNCHANGED <<homeVars, diagVars,
                   audioMuted, audioPaused, pending, autoAttempts, earlyUnmutedPlay,
                   flagVars>>

NextCeleb ==
    \/ Mount
    \/ RevealTimer
    \/ TypingTimer
    \/ TypingTick
    \/ DoneTimer
    \/ AutoplayTimer
    \/ SettleSync
    \/ SettleAuto
    \/ SettleGesture
    \/ SettleTap
    \/ SettleTapRetry
    \/ KeyM
    \/ KeyC
    \/ KeyOther
    \/ DocClick
    \/ DocTouch
    \/ AutoPlayAttribute
    \/ Unmount

\* --------------------------------------------- CSS loading checker (script)
\* bound: the most CSS imports or stylesheet links one file holds
MaxCssRefs == 1

mainFiles == <<"index.html", "src/main.jsx", "src/App.jsx", "src/pages/home.jsx",
               "src/pages/celebration.jsx">>
jsxFiles == <<"src/pages/home.jsx", "src/pages/celebration.jsx">>
cssFiles == <<"src/pages/home.styles.css", "src/pages/celebration.styles.css",
              "src/index.css", "src/App.css">>

Range(seq) == {seq[i] : i \in 1..Len(seq)}

\* a main file is absent, present and readable, or present but not readable
\* (a directory of that name, a file without read permission)
FileStates == {"missing", "readable", "unreadable"}

\* what the script looks at in a file's text: how many CSS imports or
\* stylesheet links its lines hold, and whether it names tailwindcss.com
Contents == [isNull : {FALSE}, cssRefs : 0..MaxCssRefs, tailwind : BOOLEAN]
Null == [isNull |-> TRUE, cssRefs |-> 0, tailwind |-> FALSE]

InitDiag ==
    /\ pc = "start"
    /\ files = [f \in Range(mainFiles) |-> "missing"]
    /\ issues = <<>>
    /\ recommendations = <<>>
    /\ allCSSImports = 0
    /\ hasServiceWorker = FALSE
    /\ exitStatus = 0

\* fileExists: fs.existsSync, false if it throws
fileExists(filePath) == files[filePath] # "missing"

\* readFile: the text read by fs.readFileSync, null if it throws
readFile(filePath) == IF files[filePath] = "readable" THEN Contents ELSE {Null}

\* findCSSImports: content.split throws a TypeError when content is null;
\* otherwise one entry per import found
findCSSImports(content) == [threw |-> content.isNull, length |-> content.cssRefs]

\* findCSSLinks: the same, for <link rel="stylesheet"> tags
findCSSLinks(content) == [threw |-> content.isNull, length |-> content.cssRefs]

\* an exception nothing catches ends the node process with status 1
Throw ==
    /\ pc' = "exited"
    /\ exitStatus' = 1

\* the issues pushed by a forEach over paths, for the paths that do not exist
MissingIssues(label, paths, present) ==
    LET missing == SelectSeq(paths, LAMBDA f : f \notin present)
    IN  [i \in 1..Len(missing) |-> <<label, missing[i]>>]

\* node starts the script in some working directory
Launch ==
    /\ pc = "start"
    /\ files' \in [Range(mainFiles) -> FileStates]
    /\ pc' = "mainFiles"
    /\ UNCHANGED <<homeVars, celVars, issues, recommendations, allCSSImports,
                   hasServiceWorker, exitStatus>>

\* mainFiles.forEach: an issue for every main file that does not exist
CheckMainFiles ==
    /\ pc = "mainFiles"
    /\ issues' = issues \o MissingIssues("Missing file", mainFiles,
                                      {f \in Range(mainFiles) : fileExists(f)})
    /\ pc' = "jsxFiles"
    /\ UNCHANGED <<homeVars, celVars, files, recommendations, allCSSImports,
                   hasServiceWorker, exitStatus>>

\* the imports one page file adds: none unless it exists and its read gave text
PageImports(file, content) ==
    IF fileExists(file) /\ ~content.isNull /\ ~findCSSImports(content).threw
    THEN findCSSImports(content).length
    ELSE 0

\* jsxFiles.forEach: the CSS imports of the two page files are collected
AnalyzeImports ==
    /\ pc = "jsxFiles"
    /\ \E c1 \in readFile(jsxFiles[1]), c2 \in readFile(jsxFiles[2]) :
         allCSSImports' = allCSSImports + PageImports(jsxFiles[1], c1)
                                        + PageImports(jsxFiles[2], c2)
    /\ pc' = "cssFiles"
    /\ UNCHANGED <<homeVars, celVars, files, issues, recommendations,
                   hasServiceWorker, exitStatus>>

\* cssFiles.forEach: an issue for every style sheet that does not exist
CheckCssFiles ==
    /\ pc = "cssFiles"
    /\ \E present \in SUBSET Range(cssFiles) :
         issues' = issues \o
                   MissingIssues("Missing CSS file", cssFiles, present)
    /\ pc' = "htmlLinks"
    /\ UNCHANGED <<homeVars, celVars, files, recommendations, allCSSImports,
                   hasServiceWorker, exitStatus>>

\* index.html, stylesheet links: findCSSLinks(readFile('index.html'), ...)
CheckHtmlLinks ==
    /\ pc = "htmlLinks"
    /\ IF fileExists("index.html")
       THEN \E htmlContent \in readFile("index.html") :
              IF findCSSLinks(htmlContent).threw
              THEN Throw
              ELSE pc' = "tailwind" /\ exitStatus' = exitStatus
       ELSE pc' = "tailwind" /\ exitStatus' = exitStatus
    /\ UNCHANGED <<homeVars, celVars, files, issues, recommendations, allCSSImports,
                   hasServiceWorker>>

\* index.html, Tailwind CDN: htmlContent.includes('tailwindcss.com')
CheckTailwind ==
    /\ pc = "tailwind"
    /\ IF fileExists("index.html")
       THEN \E htmlContent \in readFile("index.html") :
              IF htmlContent.isNull
              THEN Throw /\ issues' = issues
              ELSE /\ pc' = "serviceWorkers"
                   /\ exitStatus' = exitStatus
                   /\ issues' = IF htmlContent.tailwind
                                THEN issues
                                ELSE Append(issues, <<"Tailwind CDN not found", "index.html">>)
       ELSE pc' = "serviceWorkers" /\ exitStatus' = exitStatus /\ issues' = issues
    /\ UNCHANGED <<homeVars, celVars, files, recommendations, allCSSImports,
                   hasServiceWorker>>

\* swFiles.forEach: is any of the service worker files there
CheckServiceWorkers ==
    /\ pc = "serviceWorkers"
    /\ hasServiceWorker' \in BOOLEAN
    /\ pc' = "mainJsx"
    /\ UNCHANGED <<homeVars, celVars, files, issues, recommendations, allCSSImports,
                   exitStatus>>

\* src/main.jsx: findCSSImports(readFile('src/main.jsx'), ...); a file
\* without imports adds a recommendation
CheckMainJsx ==
    /\ pc = "mainJsx"
    /\ IF fileExists("src/main.jsx")
       THEN \E mainContent \in readFile("src/main.jsx") :
              LET mainImports == findCSSImports(mainContent)
              IN  IF mainImports.threw
                  THEN Throw /\ recommendations' = recommendations
                  ELSE /\ pc' = "appJsx"
                       /\ exitStatus' = exitStatus
                       /\ recommendations' =
                            IF mainImports.length > 0
                            THEN recommendations
                            ELSE Append(recommendations, "import global CSS in src/main.jsx")
       ELSE /\ pc' = "appJsx"
            /\ exitStatus' = exitStatus
            /\ recommendations' = recommendations
    /\ UNCHANGED <<homeVars, celVars, files, issues, allCSSImports, hasServiceWorker>>

\* src/App.jsx: findCSSImports(readFile('src/App.jsx'), ...)
CheckAppJsx ==
    /\ pc = "appJsx"
    /\ IF fileExists("src/App.jsx")
       THEN \E appContent \in readFile("src/App.jsx") :
              IF findCSSImports(appContent).threw
              THEN Throw
              ELSE pc' = "summary" /\ exitStatus' = exitStatus
       ELSE pc' = "summary" /\ exitStatus' = exitStatus
    /\ UNCHANGED <<homeVars, celVars, files, issues, recommendations, allCSSImports,
                   hasServiceWorker>>

\* the summary is printed and the script ends: nothing sets an exit status
Summary ==
    /\ pc = "summary"
    /\ pc' = "exited"
    /\ UNCHANGED <<homeVars, celVars, files, issues, recommendations, allCSSImports,
                   hasServiceWorker, exitStatus>>

NextDiag ==
    \/ Launch
    \/ CheckMainFiles
    \/ AnalyzeImports
    \/ CheckCssFiles
    \/ CheckHtmlLinks
    \/ CheckTailwind
    \/ CheckServiceWorkers
    \/ CheckMainJsx
    \/ CheckAppJsx
    \/ Summary

\* ------------------------------------------------------------ specifications
Init == InitHome /\ InitCeleb /\ InitDiag

SpecHome == Init /\ [][NextHome]_vars

SpecCeleb == Init /\ [][NextCeleb]_vars

\* the reveal alone, with long messages: no input that plays audio
NextReveal ==
    \/ MountLong
    \/ RevealTimer
    \/ TypingTimer
    \/ TypingTick
    \/ DoneTimer
    \/ AutoplayTimer
    \/ SettleSync
    \/ SettleAuto
    \/ KeyC
    \/ KeyOther
    \/ AutoPlayAttribute
    \/ Unmount

SpecReveal == Init /\ [][NextReveal]_vars

\* one run of the CSS loading checker
SpecDiag == Init /\ [][NextDiag]_vars

\* the event loop runs a due timer, and the router mounts the view
TimerStep == RevealTimer \/ TypingTimer \/ TypingTick \/ DoneTimer \/ AutoplayTimer

FairCeleb ==
    /\ SpecCeleb
    /\ WF_vars(Mount)
    /\ WF_vars(TimerStep)

\* ------------------------------------------------------------------ claims
ActivationEvents == {"click", "button", "Enter", " "}

\* C1: one activation of the gift calls onGiftClick once and navigate once,
\* whichever of the animationend listener and the fallback timer runs first:
\* never more than one call each, and exactly one once the fallback timer is
\* no longer pending.
C1_SingleActivationNavigatesOnce ==
    Len(acts) = 1 =>
        /\ navCount <= 1
        /\ giftClicks <= 1
        /\ acts[1].fallback # "armed" => (navCount = 1 /\ giftClicks = 1)

\* C2: an activation (click, overlay button, Enter, Space) handled while
\* animatingRef is set arms no timer and no listener and causes no navigation,
\* no onGiftClick call and no confetti trigger.
C2_InFlightActivationIgnored ==
    [][(homeEvent' \in ActivationEvents /\ animatingRef) =>
          UNCHANGED <<acts, confettiBurst, giftClicks, navCount, isOpening,
                      animatingRef, bodyOpening>>]_vars

\* an Enter key handled in flight: after the confetti timer of the only
\* activation, before its fallback timer and before any navigation
C2_Witness ==
    /\ homeEvent = "Enter"
    /\ animatingRef
    /\ Len(acts) = 1
    /\ acts[1].confetti = "fired"
    /\ acts[1].fallback = "armed"
    /\ navCount = 0

StageIndex(st) == CHOOSE i \in 1..Len(Stages) : Stages[i] = st

StageTimer(st) ==
    CASE st = "image" -> "t1"
      [] st = "heading" -> "t2"
      [] st = "typing" -> "t3"
      [] st = "done" -> "t4"
      [] OTHER -> "auto"

\* C3: while the view is mounted sequenceState only ever moves to the next
\* stage of init, image, heading, typing, done, and only in the step in which
\* that stage's timer fires (so no key, tap or page gesture moves it); a view
\* that stays mounted reaches done.
C3_StagesInOrder ==
    /\ [][(celMounted' /\ sequenceState' # sequenceState) =>
            /\ StageIndex(sequenceState') = StageIndex(sequenceState) + 1
            /\ timers[StageTimer(sequenceState')] = "armed"
            /\ timers'[StageTimer(sequenceState')] = "fired"]_vars
    /\ (<>(celPhase = "unmounted") \/ <>(celMounted /\ sequenceState = "done"))

\* done is reached in a mounted view after the user muted, with the prompt up
C3_Witness ==
    /\ celMounted
    /\ sequenceState = "done"
    /\ isMuted
    /\ showPlayPrompt
    /\ audioEvent = "touchstart"

\* C4 as stated: while mounted the typed length never decreases, and in every
\* state where the stage is done it is the full length of the message.
C4_TypedFullAtDone ==
    [][celMounted' =>
          /\ typedLen' >= typedLen
          /\ sequenceState' = "done" => typedLen' = msgLen']_vars

\* C4 as amended: while mounted the typed length never decreases and never
\* exceeds the message; it is the full length once the typing interval, started
\* at stage typing, has stopped.
C4_TypedFullWhenTypingStops ==
    [][celMounted' =>
          /\ typedLen' >= typedLen
          /\ typedLen' <= msgLen'
          /\ (sequenceState' \in {"typing", "done"} /\ ~typingTimer')
                => typedLen' = msgLen']_vars

\* a message longer than the ticks that fit before done, typed to its end
C4_Witness ==
    /\ celMounted
    /\ sequenceState = "done"
    /\ ~typingTimer
    /\ msgLen * TypeInterval > T4 - T3
    /\ typedLen = msgLen

\* C5: after the unmount no timer is pending, no state setter is called and
\* the audio element is not used.
C5_NothingAfterUnmount ==
    celPhase = "unmounted" =>
        /\ \A x \in TimerNames : timers[x] # "armed"
        /\ ~typingTimer
        /\ ~lateSetState
        /\ ~lateAudioCall

GestureCount == pending[<<"gesture", TRUE>>] + pending[<<"gesture", FALSE>>]

\* C6: in a mounted view a rejected muted autoplay attempt leaves the prompt
\* visible; when the prompt becomes visible the click and the touchstart
\* listener are both armed; while it stays visible a listener is only taken
\* away by its gesture, which attempts playback; and a gesture attempt that
\* resolves hides the prompt.
C6_PromptAndGestureRetry ==
    [][celMounted' =>
          /\ pending'[<<"auto", FALSE>>] < pending[<<"auto", FALSE>>]
                => showPlayPrompt'
          /\ (~showPlayPrompt /\ showPlayPrompt') => (clickArmed' /\ touchArmed')
          /\ (showPlayPrompt /\ showPlayPrompt' /\ clickArmed /\ ~clickArmed')
                => (audioEvent' \in {"click", "imageClick"}
                    /\ GestureCount' = GestureCount + 1)
          /\ (showPlayPrompt /\ showPlayPrompt' /\ touchArmed /\ ~touchArmed')
                => (audioEvent' = "touchstart" /\ GestureCount' = GestureCount + 1)
          /\ pending'[<<"gesture", TRUE>>] < pending[<<"gesture", TRUE>>]
                => ~showPlayPrompt']_vars

\* after the autoplay attempt a gesture's playback succeeded and hid the prompt
C6_Witness ==
    /\ celMounted
    /\ audioEvent = "gestureResolved"
    /\ autoAttempts = 1
    /\ ~showPlayPrompt
    /\ ~clickArmed
    /\ ~touchArmed
    /\ ~audioPaused
    /\ PendingCount = 0

\* C7: when the muted autoplay attempt resolves in a mounted view, the element
\* is unmuted and audioPlaying set unless isMuted is true, in which case the
\* element stays muted and audioPlaying stays false.
C7_AutoplayRespectsMute ==
    (celMounted /\ audioEvent = "autoResolved") =>
        IF isMuted THEN audioMuted /\ ~audioPlaying
                   ELSE ~audioMuted /\ audioPlaying

KeyMStep == celMounted' /\ isMuted' # isMuted

\* C8 as stated: a mute toggle while the audio is paused attempts playback,
\* and a toggle while it plays does not pause it.
C8_ToggleWhilePausedPlays ==
    [][KeyMStep =>
          /\ audioPaused => PendingCount' = PendingCount + 1
          /\ ~audioPaused => ~audioPaused']_vars

\* C8 as amended: a toggle to unmuted while the audio is paused attempts
\* playback; a toggle to muted, or any toggle while the audio plays, attempts
\* none; and no step of a mounted view pauses a playing element.
C8_UnmuteWhilePausedPlays ==
    [][celMounted' =>
          /\ (KeyMStep /\ audioPaused /\ ~isMuted')
                => (/\ PendingCount' = PendingCount + 1
                    /\ pending'[<<"sync", TRUE>>] + pending'[<<"sync", FALSE>>]
                         = pending[<<"sync", TRUE>>] + pending[<<"sync", FALSE>>] + 1)
          /\ (KeyMStep /\ (isMuted' \/ ~audioPaused)) => pending' = pending
          /\ ~audioPaused => ~audioPaused']_vars

\* before the autoplay attempt, with the prompt up after the mount-time play
\* was rejected, M was pressed to unmute and a new attempt is under way
C8_Witness ==
    /\ celMounted
    /\ audioEvent = "KeyM"
    /\ ~isMuted
    /\ autoAttempts = 0
    /\ showPlayPrompt
    /\ PendingCount = 1
    /\ pending[<<"sync", TRUE>>] = 1

RejectedStep(kind) == pending'[<<kind, FALSE>>] < pending[<<kind, FALSE>>]

\* C9 as stated: no rejection is uncaught, and after any rejected attempt the
\* mounted view shows the prompt.
C9_EveryRejectionShowsPrompt ==
    /\ ~uncaught
    /\ (celMounted /\ audioEvent \in {"syncRejected", "autoRejected",
                                      "gestureRejected", "tapRejected",
                                      "retryRejected"})
          => showPlayPrompt

\* C9 as amended: no rejection is uncaught; in a mounted view a rejected
\* autoplay attempt, unmute attempt or page gesture attempt leaves the prompt
\* visible, and a rejected image tap attempt or retry leaves the prompt as it
\* was.
C9_RejectionsCaught ==
    [][/\ ~uncaught'
       /\ celMounted' =>
            /\ (RejectedStep("sync") \/ RejectedStep("auto") \/ RejectedStep("gesture"))
                  => showPlayPrompt'
            /\ (RejectedStep("tap1") \/ RejectedStep("tap2"))
                  => UNCHANGED <<showPlayPrompt, audioPlaying>>]_vars

\* the image tap and its retry were both rejected: nothing plays, no prompt
C9_Witness ==
    /\ celMounted
    /\ audioEvent = "retryRejected"
    /\ ~showPlayPrompt
    /\ audioPaused

\* C10: no play() call is made on an unmuted element before the muted attempt
\* of tryMutedAutoplay, and tryMutedAutoplay runs at most once per mount.
C10_FirstPlayIsMuted ==
    /\ ~earlyUnmutedPlay
    /\ autoAttempts <= 1

\* C11: every timer and listener an activation of the gift armed is torn down
\* when the opening view unmounts (none is left armed in an unmounted view),
\* and after the unmount no step calls onGiftClick or navigate or changes a
\* class (body "opening", "confetti-burst").
C11_TornDownOnUnmount ==
    [][/\ ~homeMounted' =>
            \A i \in 1..Len(acts') :
                /\ acts'[i].confetti # "armed"
                /\ acts'[i].fallback # "armed"
                /\ acts'[i].listener # "armed"
       /\ ~homeMounted =>
            /\ giftClicks' = giftClicks
            /\ navCount' = navCount
            /\ bodyOpening' = bodyOpening
            /\ confettiBurst' = confettiBurst]_vars

\* C12: the CSS loading checker ends with exit status 0 whatever the state of
\* the five main files (each missing, readable, or present but unreadable).
C12_ExitsZero ==
    pc = "exited" => exitStatus = 0

\* C13: while the celebration view is mounted with the play prompt visible and
\* no play() promise pending, onUserGesture is registered on the document for
\* click or for touchstart, so that the next page gesture attempts playback;
\* this holds in particular after a gesture-triggered retry was rejected.
C13_PromptHasArmedListener ==
    (celMounted /\ showPlayPrompt /\ BagSize(pending, PTypes) = 0) =>
        (clickArmed \/ touchArmed)
====
